---- MODULE Spec2Model ----
(***************************************************************************)
(* Geocoin game (src/src/main.ts): a player walks a grid of cells, caches  *)
(* are generated deterministically per cell, their contents are kept as    *)
(* mementos in cacheState, coins move between the player's inventory and   *)
(* the visible caches, and a session blob is kept in localStorage.         *)
(*                                                                         *)
(* Coordinates are integers counting 0.00001 degree, so GRID_SIZE          *)
(* (0.0001 degree) is 10 and arithmetic on coordinates is exact.           *)
(* Probabilities are integers counting 1/10000.                            *)
(* A cache id `cache_i_j` is the tuple <<"cache", i, j>>, a coin id        *)
(* `i:j#serial` is the tuple <<i, j, serial>>.                             *)
(***************************************************************************)
EXTENDS Integers, Sequences, FiniteSets, TLC

INITIAL_LAT == 3698950
INITIAL_LNG == -12206270
GRID_SIZE == 10
CACHE_PROBABILITY == 1000
RANGE == 8

(* Bounds of the explored part of the world: the player stays within      *)
(* MaxDistance steps of the start cell on a staircase that goes            *)
(* alternately one cell north and one cell west, and the movement trail    *)
(* holds at most MaxTrail entries.                                         *)
MaxDistance == 2
MaxTrail == 1

(* Margin of cells charted around the start cell beyond the window.        *)
ChartNorth == RANGE + 3
ChartSouth == RANGE
ChartWest == RANGE + 4
ChartEast == RANGE

VARIABLES player, cacheLocations, cacheState, movementHistory,
          localStorage, watching, phase, popup

vars == << player, cacheLocations, cacheState, movementHistory,
           localStorage, watching, phase, popup >>

----------------------------------------------------------------------------
(* Grid mapper *)

latLngToCell(c) ==
    [i |-> c.lat \div GRID_SIZE, j |-> c.lng \div GRID_SIZE]

InitialPosition == [lat |-> INITIAL_LAT, lng |-> INITIAL_LNG]

StartCell == latLngToCell(InitialPosition)

CacheId(cell) == << "cache", cell.i, cell.j >>

----------------------------------------------------------------------------
(* Deterministic generator.                                                *)
(* deterministicRandom(seed) = abs(sin(seed) * 10000) mod 1 is tabulated,  *)
(* as floor(10000 * value), for the seeds the charted cells produce: the   *)
(* existence seeds i * RANGE + j and the coin-count seeds i + j + 1.       *)

FirstExistenceSeed ==
    (StartCell.i - ChartSouth) * RANGE + (StartCell.j - ChartWest)

FirstCountSeed == (StartCell.i - ChartSouth) + (StartCell.j - ChartWest) + 1

ExistenceSamples ==
    << 3065, 8705, 4082, 7512, 1494,  658, 7813, 4179, 9866,  193,
       2829, 8445, 1971, 4221, 1373, 6112, 1892, 3173, 1544, 1676,
       8421, 8186, 6772, 1451, 1553, 2486, 5273, 6845, 9284, 9708,
       2451, 5693, 8790, 2779, 8603, 7484,  373,  156, 7782, 7259,
       8130, 4262, 5509,  993, 9190, 6997, 2533, 7275, 2360, 5987,
       9834, 9188, 7577, 9183, 9465, 9392, 2177, 6330, 1542,  154,
        212, 3561, 9764, 4415, 5017, 8041,  251, 5316, 7062, 1809,
       2721, 8115, 9531, 2575, 5267,  730, 4803, 8294, 2756,  703,
       4881, 6166, 9120, 2071, 6500, 2069, 6926, 9376, 9886, 6383,
       5180, 6018, 6319, 3260, 8444, 9826, 5543,  402, 4753, 9499,
        405,  544,  394, 8251, 4445, 2782, 8392, 7159, 1219, 5047,
       8026,  171, 6926, 9833, 3120, 1453, 6644,  898, 8427, 8265,
       9266, 3020, 5188, 5798, 8083, 6471, 6125, 5688, 5495, 9619,
       7882, 5102, 4604, 6654, 2341, 3186, 3089, 2728, 4198, 5748,
       3942, 4388, 8291, 8870, 7170, 6409, 7954,  884, 4098,  782,
       7863, 9384, 6898, 9589, 9553, 5808, 1466, 6006, 6194, 7117,
       1175, 4334, 2113, 8837, 1780, 7064, 6415, 2321,   11, 1552,
       8304, 8061, 5553 >>
CountSamples ==
    << 6740, 3428,  840, 9555, 9140, 5568,  878, 8461, 1956, 9898,
       4036, 4875, 5477, 4602,  674, 4978, 9019, 8351, 2310, 9695,
       9610, 5253, 5342, 5867, 2097, 2999,  799, 7673, 9296, 4319,
       8855,  918, 7585, 9617, 4276, 7580, 5751, 4374, 1173,  653 >>

deterministicRandom(seed) ==
    IF seed >= FirstExistenceSeed
    THEN ExistenceSamples[seed - FirstExistenceSeed + 1]
    ELSE CountSamples[seed - FirstCountSeed + 1]

(* A coins loop whose serials start at 1. *)
GeneratedCoinsFromOne(cell, numCoins) ==
    [coinSerial \in 1..numCoins |-> << cell.i, cell.j, coinSerial >>]

(* The coin sequence pushed by the loop of generateCache. *)
GeneratedCoins(cell, numCoins) ==
    [coinSerial \in 1..numCoins |-> << cell.i, cell.j, coinSerial - 1 >>]

----------------------------------------------------------------------------
(* Geocache and its memento.  A Geocache is a record [id, location,       *)
(* coins]; its memento, the JSON text of toMomento, is the tuple           *)
(* <<id, <<lat, lng>>, coins>>.                                            *)

Geocache(id, location, coins) ==
    [id |-> id, location |-> location, coins |-> coins]

toMomento(cache) ==
    << cache.id, << cache.location.lat, cache.location.lng >>, cache.coins >>

(* fromMomento that reads latitude and longitude in the wrong order. *)
fromMomentoSwapped(momento) ==
    [id |-> momento[1],
     location |-> [lat |-> momento[2][2], lng |-> momento[2][1]],
     coins |-> momento[3]]

fromMomento(momento) ==
    [id |-> momento[1],
     location |-> [lat |-> momento[2][1], lng |-> momento[2][2]],
     coins |-> momento[3]]

(* Map<string, string> operations on cacheState. *)
EmptyMap == [id \in {} |-> << >>]

MapHas(map, id) == id \in DOMAIN map

MapSet(map, id, value) ==
    [k \in DOMAIN map \cup {id} |-> IF k = id THEN value ELSE map[k]]

(* generateCache that stores the snapshot before the coins are pushed. *)
generateCacheStoringEarly(cell, store) ==
    IF deterministicRandom(cell.i * RANGE + cell.j) < CACHE_PROBABILITY
    THEN LET id == CacheId(cell)
             location == [lat |-> cell.i * GRID_SIZE,
                          lng |-> cell.j * GRID_SIZE]
             numCoins == (deterministicRandom(cell.i + cell.j + 1) * 5)
                         \div 10000
             cache == Geocache(id, location, GeneratedCoins(cell, numCoins))
         IN  [cache |-> << cache >>,
              store |-> MapSet(store, id,
                               toMomento(Geocache(id, location, << >>)))]
    ELSE [cache |-> << >>, store |-> store]

(* generateCache: the result is <<cache>> or << >> (null), together with   *)
(* the store after the call.                                               *)
generateCache(cell, store) ==
    IF deterministicRandom(cell.i * RANGE + cell.j) < CACHE_PROBABILITY
    THEN LET id == CacheId(cell)
             location == [lat |-> cell.i * GRID_SIZE, lng |-> cell.j * GRID_SIZE]
             numCoins == (deterministicRandom(cell.i + cell.j + 1) * 5) \div 10000
             cache == Geocache(id, location, GeneratedCoins(cell, numCoins))
         IN  [cache |-> << cache >>, store |-> MapSet(store, id, toMomento(cache))]
    ELSE [cache |-> << >>, store |-> store]

restoreCache(cacheId, store) ==
    IF MapHas(store, cacheId) THEN << fromMomento(store[cacheId]) >> ELSE << >>

----------------------------------------------------------------------------
(* World view *)

WindowSide == 2 * RANGE + 1

(* Nested loops that stop one short of the upper end of both ranges. *)
ScanOrderExclusive(playerCell) ==
    [k \in 1..((WindowSide - 1) * (WindowSide - 1)) |->
        [i |-> playerCell.i + ((k - 1) \div (WindowSide - 1)) - RANGE,
         j |-> playerCell.j + ((k - 1) % (WindowSide - 1)) - RANGE]]

(* The cells in the order the nested loops of updateVisibleCaches visit    *)
(* them: i outer, j inner, both from -RANGE to RANGE.                      *)
ScanOrder(playerCell) ==
    [k \in 1..(WindowSide * WindowSide) |->
        [i |-> playerCell.i + ((k - 1) \div WindowSide) - RANGE,
         j |-> playerCell.j + ((k - 1) % WindowSide) - RANGE]]

(* A loop body that never consults the store and always generates. *)
ResolveCellRegenerating(cell, store) == generateCache(cell, store)

(* One iteration of the loop body on a cell: restore when the store has    *)
(* the id, generate otherwise.  An iteration reads and writes the store    *)
(* only under its own cell's id, and the loops visit every cell once, so   *)
(* each iteration sees the store of the loop's start under its id.         *)
ResolveCell(cell, store) ==
    IF MapHas(store, CacheId(cell))
    THEN [cache |-> restoreCache(CacheId(cell), store), store |-> store]
    ELSE generateCache(cell, store)

(* The generator is a pure function of the cell, so where it produces a   *)
(* cache is tabulated once for the window of every cell the player can     *)
(* stand in.                                                               *)
Exists(cell) ==
    deterministicRandom(cell.i * RANGE + cell.j) < CACHE_PROBABILITY

OnStaircase(cell) ==
    LET north == cell.i - StartCell.i
        west == StartCell.j - cell.j
    IN  /\ north \in 0..MaxDistance
        /\ west \in 0..MaxDistance
        /\ north - west \in {0, 1}
        /\ north + west <= MaxDistance

BoxCells ==
    {cell \in {[i |-> StartCell.i + north, j |-> StartCell.j - west] :
                  north \in 0..MaxDistance, west \in 0..MaxDistance} :
        OnStaircase(cell)}

GeneratedInWindow ==
    [playerCell \in BoxCells |-> SelectSeq(ScanOrder(playerCell), Exists)]

GeneratedCells ==
    UNION {{GeneratedInWindow[pc][k] : k \in 1..Len(GeneratedInWindow[pc])} :
              pc \in BoxCells}

InWindow(cell, playerCell) ==
    /\ cell.i - playerCell.i \in (-RANGE)..RANGE
    /\ cell.j - playerCell.j \in (-RANGE)..RANGE

IdCell(cacheId) == [i |-> cacheId[2], j |-> cacheId[3]]

(* updateVisibleCaches that drops from the store the snapshots of the      *)
(* caches outside the square.                                              *)
updateVisibleCachesEvicting(position, store) ==
    LET playerCell == latLngToCell(position)
        stored == DOMAIN store
        storedOnly == {id \in stored : /\ InWindow(IdCell(id), playerCell)
                                       /\ IdCell(id) \notin GeneratedCells}
        present == IF storedOnly = {} /\ playerCell \in BoxCells
                   THEN GeneratedInWindow[playerCell]
                   ELSE SelectSeq(ScanOrder(playerCell),
                          LAMBDA cell : CacheId(cell) \in stored \/ Exists(cell))
        added == {CacheId(present[k]) : k \in 1..Len(present)} \ stored
    IN  [cacheLocations |->
            [k \in 1..Len(present) |-> ResolveCell(present[k], store).cache[1]],
         cacheState |->
            [id \in {s \in stored : InWindow(IdCell(s), playerCell)}
                    \cup added |->
                IF id \in stored THEN store[id]
                ELSE ResolveCell(IdCell(id), store).store[id]]]

(* updateVisibleCaches: the new cacheLocations and cacheState.  The cells  *)
(* that resolve to a cache are those with a snapshot in the store or a     *)
(* generated cache, in scan order.                                         *)
updateVisibleCaches(position, store) ==
    LET playerCell == latLngToCell(position)
        stored == DOMAIN store
        storedOnly == {id \in stored : /\ InWindow(IdCell(id), playerCell)
                                       /\ IdCell(id) \notin GeneratedCells}
        present == IF storedOnly = {} /\ playerCell \in BoxCells
                   THEN GeneratedInWindow[playerCell]
                   ELSE SelectSeq(ScanOrder(playerCell),
                          LAMBDA cell : CacheId(cell) \in stored \/ Exists(cell))
        added == {CacheId(present[k]) : k \in 1..Len(present)} \ stored
    IN  [cacheLocations |->
            [k \in 1..Len(present) |-> ResolveCell(present[k], store).cache[1]],
         cacheState |->
            [id \in stored \cup added |->
                IF id \in stored THEN store[id]
                ELSE ResolveCell(IdCell(id), store).store[id]]]

----------------------------------------------------------------------------
(* Player *)

NewPlayer(position) ==
    [position |-> position, coins |-> << >>, visitedCaches |-> {}]

move(position, direction) ==
    CASE direction = "north" -> [position EXCEPT !.lat = @ + GRID_SIZE]
      [] direction = "south" -> [position EXCEPT !.lat = @ - GRID_SIZE]
      [] direction = "east"  -> [position EXCEPT !.lng = @ + GRID_SIZE]
      [] direction = "west"  -> [position EXCEPT !.lng = @ - GRID_SIZE]
      [] OTHER -> position

(* collectCoin that pushes the coin twice. *)
collectCoinTwice(p, coin, cacheId) ==
    [p EXCEPT !.coins = Append(Append(@, coin), coin),
              !.visitedCaches = @ \cup {cacheId}]

(* collectCoin that puts the coin at the head of the inventory. *)
collectCoinAtHead(p, coin, cacheId) ==
    [p EXCEPT !.coins = << coin >> \o @,
              !.visitedCaches = @ \cup {cacheId}]

collectCoin(p, coin, cacheId) ==
    [p EXCEPT !.coins = Append(@, coin),
              !.visitedCaches = @ \cup {cacheId}]

(* Array.prototype.pop: the last element and the rest. *)
Last(s) == s[Len(s)]

Front(s) == SubSeq(s, 1, Len(s) - 1)

(* depositCoin that takes the first coin of the inventory. *)
depositCoinFromHead(p, cache) ==
    IF Len(p.coins) > 0
    THEN [player |-> [p EXCEPT !.coins = Tail(@)],
          cache |-> [cache EXCEPT !.coins = Append(@, Head(p.coins))]]
    ELSE [player |-> p, cache |-> cache]

(* depositCoin that pushes the coin at the head of the cache's coins. *)
depositCoinAtHead(p, cache) ==
    IF Len(p.coins) > 0
    THEN [player |-> [p EXCEPT !.coins = Front(@)],
          cache |-> [cache EXCEPT !.coins = << Last(p.coins) >> \o @]]
    ELSE [player |-> p, cache |-> cache]

(* depositCoin that pushes the coin without popping it from the inventory. *)
depositCoinKeepsCoin(p, cache) ==
    IF Len(p.coins) > 0
    THEN [player |-> p,
          cache |-> [cache EXCEPT !.coins = Append(@, Last(p.coins))]]
    ELSE [player |-> p, cache |-> cache]

(* depositCoin: the player and the cache after the call. *)
depositCoin(p, cache) ==
    IF Len(p.coins) > 0
    THEN [player |-> [p EXCEPT !.coins = Front(@)],
          cache |-> [cache EXCEPT !.coins = Append(@, Last(p.coins))]]
    ELSE [player |-> p, cache |-> cache]

(* cacheLocations.find((c) => c.id === cacheId): the index of the first    *)
(* match, 0 when there is none.                                            *)
FindCache(locations, cacheId) ==
    LET matches == {k \in 1..Len(locations) : locations[k].id = cacheId}
    IN  IF matches = {} THEN 0
        ELSE CHOOSE k \in matches : \A m \in matches : k <= m

----------------------------------------------------------------------------
(* Session persistence.  localStorage is << >> when the key "gameState"    *)
(* is absent and <<text>> otherwise.  The text written by saveGameState    *)
(* has format "state"; coordinates are written as <<lat, lng>> pairs.      *)

Absent == << >>

CoordText(c) == << c.lat, c.lng >>

CoordValue(t) == [lat |-> t[1], lng |-> t[2]]

SessionText(format, position, inventory, caches, history) ==
    [format |-> format,
     player |-> CoordText(position),
     inventory |-> inventory,
     caches |-> caches,
     history |-> [k \in 1..Len(history) |-> CoordText(history[k])]]

saveGameState(p, store, history) ==
    << SessionText("state", p.position, p.coins, store, history) >>

(* Stored texts the program did not write: one that JSON.parse rejects,    *)
(* and a JSON object with player and inventory but no caches and no        *)
(* history.                                                                *)
GarbageText ==
    SessionText("garbage", InitialPosition, << >>, EmptyMap, << >>)

PartialText ==
    SessionText("nocaches", move(InitialPosition, "north"), << >>,
                EmptyMap, << >>)

(* The entries loop of restoreGameState: every saved memento is parsed     *)
(* into a Geocache and written back.                                       *)
RestoredStore(caches) ==
    [id \in DOMAIN caches |-> toMomento(fromMomento(caches[id]))]

ParsedHistory(text) ==
    [k \in 1..Len(text.history) |-> CoordValue(text.history[k])]

(* updateMovementHistory *)
updateMovementHistory(history, position) == Append(history, position)

----------------------------------------------------------------------------
(* The part of the world the player is kept in. *)

InBox(position) == OnStaircase(latLngToCell(position))

Directions == << "north", "south", "west", "east" >>

(* Geolocation sample: a position inside the cell north of the start      *)
(* cell, not on a cell boundary.                                           *)
GeoSamples ==
    { [lat |-> INITIAL_LAT + GRID_SIZE + 4, lng |-> INITIAL_LNG + 6] }

(* Cache ids passed to collectCoins and depositCoins: A, generated with    *)
(* two coins and in view from the start row only; E, generated empty and   *)
(* in view from the start cell and the cells next to it on the staircase;  *)
(* and the start cell, which has no cache.                                 *)
CellAt(di, dj) == [i |-> StartCell.i + di, j |-> StartCell.j + dj]

CacheA == CacheId(CellAt(-8, -7))

CacheE == CacheId(CellAt(-1, 7))

CacheNone == CacheId(CellAt(0, 0))

TargetIds == {CacheA, CacheE, CacheNone}

(* The targets of a deposit that puts coins back where they came from. *)
HomeIds == {CacheA, CacheNone}

----------------------------------------------------------------------------
(* restoreGameState without the test for a stored text: destructuring the *)
(* null that JSON.parse returns throws.                                   *)
restoreGameStateUnguarded(storage, mem) ==
    IF storage = Absent
    THEN [mem |-> mem, threw |-> TRUE]
    ELSE LET text == storage[1]
         IN  CASE text.format = "garbage" -> [mem |-> mem, threw |-> TRUE]
               [] text.format = "nocaches" ->
                    [mem |-> [mem EXCEPT
                                !.player.position = CoordValue(text.player),
                                !.player.coins = text.inventory,
                                !.movementHistory = << >>,
                                !.cacheState = EmptyMap],
                     threw |-> TRUE]
               [] text.format = "state" ->
                    LET position == CoordValue(text.player)
                        view == updateVisibleCaches(position,
                                                    RestoredStore(text.caches))
                    IN  [mem |-> [player |-> [mem.player EXCEPT
                                                !.position = position,
                                                !.coins = text.inventory],
                                  cacheLocations |-> view.cacheLocations,
                                  cacheState |-> view.cacheState,
                                  movementHistory |->
                                      updateMovementHistory(ParsedHistory(text),
                                                            position)],
                         threw |-> FALSE]

(* restoreGameState that skips the entries loop and leaves the store empty. *)
restoreGameStateWithoutCaches(storage, mem) ==
    IF storage = Absent
    THEN [mem |-> mem, threw |-> FALSE]
    ELSE LET text == storage[1]
         IN  CASE text.format = "garbage" -> [mem |-> mem, threw |-> TRUE]
               [] text.format = "nocaches" ->
                    [mem |-> [mem EXCEPT
                                !.player.position = CoordValue(text.player),
                                !.player.coins = text.inventory,
                                !.movementHistory = << >>,
                                !.cacheState = EmptyMap],
                     threw |-> TRUE]
               [] text.format = "state" ->
                    LET position == CoordValue(text.player)
                        view == updateVisibleCaches(position, EmptyMap)
                    IN  [mem |-> [player |-> [mem.player EXCEPT
                                                !.position = position,
                                                !.coins = text.inventory],
                                  cacheLocations |-> view.cacheLocations,
                                  cacheState |-> view.cacheState,
                                  movementHistory |->
                                      updateMovementHistory(ParsedHistory(text),
                                                            position)],
                         threw |-> FALSE]

(* restoreGameState on the in-memory state mem = [player, cacheLocations,  *)
(* cacheState, movementHistory]: the memory after the call, and whether    *)
(* the call ended by an exception.                                         *)
restoreGameState(storage, mem) ==
    IF storage = Absent
    THEN [mem |-> mem, threw |-> FALSE]
    ELSE LET text == storage[1]
         IN  CASE text.format = "garbage" ->
                    (* JSON.parse throws *)
                    [mem |-> mem, threw |-> TRUE]
               [] text.format = "nocaches" ->
                    (* caches.forEach throws, after the assignments *)
                    [mem |-> [mem EXCEPT
                                !.player.position = CoordValue(text.player),
                                !.player.coins = text.inventory,
                                !.movementHistory = << >>,
                                !.cacheState = EmptyMap],
                     threw |-> TRUE]
               [] text.format = "state" ->
                    LET position == CoordValue(text.player)
                        view == updateVisibleCaches(position,
                                                    RestoredStore(text.caches))
                    IN  [mem |-> [player |-> [mem.player EXCEPT
                                                !.position = position,
                                                !.coins = text.inventory],
                                  cacheLocations |-> view.cacheLocations,
                                  cacheState |-> view.cacheState,
                                  movementHistory |->
                                      updateMovementHistory(ParsedHistory(text),
                                                            position)],
                         threw |-> FALSE]

FreshMemory ==
    [player |-> NewPlayer(InitialPosition),
     cacheLocations |-> << >>,
     cacheState |-> EmptyMap,
     movementHistory |-> << >>]

(* The DOMContentLoaded handler on a freshly loaded page: restoreGameState *)
(* and then updateVisibleCaches, which an exception thrown by              *)
(* restoreGameState skips.                                                 *)
Startup(storage) ==
    LET restored == restoreGameState(storage, FreshMemory)
        view == updateVisibleCaches(restored.mem.player.position,
                                    restored.mem.cacheState)
    IN  IF restored.threw
        THEN restored
        ELSE [mem |-> [restored.mem EXCEPT
                         !.cacheLocations = view.cacheLocations,
                         !.cacheState = view.cacheState],
              threw |-> FALSE]

----------------------------------------------------------------------------
(* Cache popups.  updateCacheMarkers adds a marker for every cache of the  *)
(* live view on top of the markers already there; a marker's closures hold *)
(* the Geocache object it was created for.  popup is << >> when no popup   *)
(* is open and <<p>> otherwise, where p.cache is the object the open       *)
(* popup's marker holds, p.attached tells whether that object is still an  *)
(* element of cacheLocations, p.content is the content the popup shows and *)
(* p.armed tells whether the buttons it shows have click listeners.        *)
NoPopup == << >>

(* getPopupContent: the heading and the coin list, "(empty)" standing for  *)
(* an empty list.                                                          *)
getPopupContent(cache) ==
    [heading |-> << cache.location.lat, cache.location.lng >>,
     list |-> cache.coins,
     placeholder |-> IF cache.coins = << >> THEN "(empty)" ELSE ""]

(* The end of updateVisibleCaches: cacheLocations holds new objects, so    *)
(* the object of an open popup is no longer in it; the marker, and with it *)
(* the popup, is removed when its id is outside the square.                *)
PopupAfterRefresh(open, position) ==
    IF open = NoPopup THEN NoPopup
    ELSE IF InWindow(IdCell(open[1].cache.id), latLngToCell(position))
    THEN << [open[1] EXCEPT !.attached = FALSE] >>
    ELSE NoPopup

DOMContentLoaded ==
    /\ phase = "loading"
    /\ phase' = "running"
    /\ LET started == Startup(localStorage)
       IN  /\ player' = started.mem.player
           /\ cacheLocations' = started.mem.cacheLocations
           /\ cacheState' = started.mem.cacheState
           /\ movementHistory' = started.mem.movementHistory
    /\ UNCHANGED << localStorage, watching, popup >>

(* Click on a movement button. *)
ClickMove(index) ==
    /\ phase = "running"
    /\ LET position == move(player.position, Directions[index])
           view == updateVisibleCaches(position, cacheState)
           p == [player EXCEPT !.position = position]
       IN  /\ InBox(position)
           /\ player' = p
           /\ cacheLocations' = view.cacheLocations
           /\ cacheState' = view.cacheState
           /\ localStorage' = saveGameState(p, view.cacheState, movementHistory)
           /\ popup' = PopupAfterRefresh(popup, position)
    /\ UNCHANGED << movementHistory, watching, phase >>

(* Click on the geolocation button: enableGeolocationTracking. *)
ClickGeolocation(supported) ==
    /\ phase = "running"
    /\ watching' = (watching \/ supported)
    /\ UNCHANGED << player, cacheLocations, cacheState, movementHistory,
                    localStorage, phase, popup >>

(* Success callback of watchPosition. *)
PositionUpdate(coords) ==
    /\ phase = "running"
    /\ watching
    /\ LET view == updateVisibleCaches(coords, cacheState)
       IN  /\ player' = [player EXCEPT !.position = coords]
           /\ cacheLocations' = view.cacheLocations
           /\ cacheState' = view.cacheState
           /\ popup' = PopupAfterRefresh(popup, coords)
    /\ UNCHANGED << movementHistory, localStorage, watching, phase >>

(* collectCoins that does not write the snapshot back. *)
collectCoinsWithoutPut(cacheId) ==
    /\ phase = "running"
    /\ LET k == FindCache(cacheLocations, cacheId)
       IN  IF k = 0
           THEN UNCHANGED << player, cacheLocations, cacheState >>
           ELSE IF Len(cacheLocations[k].coins) = 0
           THEN UNCHANGED << player, cacheLocations, cacheState >>
           ELSE LET coin == Last(cacheLocations[k].coins)
                    cache == [cacheLocations[k] EXCEPT !.coins = Front(@)]
                IN  /\ player' = collectCoin(player, coin, cache.id)
                    /\ cacheLocations' = [cacheLocations EXCEPT ![k] = cache]
                    /\ UNCHANGED cacheState
    /\ UNCHANGED << movementHistory, localStorage, watching, phase >>

(* collectCoins without the check for an empty cache: pop yields nothing,  *)
(* but the cache is still marked visited and its snapshot rewritten.       *)
collectCoinsUnchecked(cacheId) ==
    /\ phase = "running"
    /\ LET k == FindCache(cacheLocations, cacheId)
       IN  IF k = 0
           THEN UNCHANGED << player, cacheLocations, cacheState >>
           ELSE IF Len(cacheLocations[k].coins) = 0
           THEN /\ player' = [player EXCEPT !.visitedCaches = @ \cup {cacheId}]
                /\ UNCHANGED << cacheLocations, cacheState >>
           ELSE LET coin == Last(cacheLocations[k].coins)
                    cache == [cacheLocations[k] EXCEPT !.coins = Front(@)]
                IN  /\ player' = collectCoin(player, coin, cache.id)
                    /\ cacheLocations' = [cacheLocations EXCEPT ![k] = cache]
                    /\ cacheState' = MapSet(cacheState, cache.id,
                                            toMomento(cache))
    /\ UNCHANGED << movementHistory, localStorage, watching, phase >>

collectCoins(cacheId) ==
    /\ phase = "running"
    /\ LET k == FindCache(cacheLocations, cacheId)
       IN  IF k = 0
           THEN UNCHANGED << player, cacheLocations, cacheState >>
           ELSE IF Len(cacheLocations[k].coins) = 0
           THEN UNCHANGED << player, cacheLocations, cacheState >>
           ELSE LET coin == Last(cacheLocations[k].coins)
                    cache == [cacheLocations[k] EXCEPT !.coins = Front(@)]
                IN  /\ player' = collectCoin(player, coin, cache.id)
                    /\ cacheLocations' = [cacheLocations EXCEPT ![k] = cache]
                    /\ cacheState' = MapSet(cacheState, cache.id,
                                            toMomento(cache))
    /\ UNCHANGED << movementHistory, localStorage, watching, phase >>

(* depositCoins that falls back on the snapshot of the store when the id   *)
(* is not in the live view.                                                *)
depositCoinsFromStore(cacheId) ==
    /\ phase = "running"
    /\ LET k == FindCache(cacheLocations, cacheId)
       IN  IF k = 0 /\ ~MapHas(cacheState, cacheId)
           THEN UNCHANGED << player, cacheLocations, cacheState >>
           ELSE IF Len(player.coins) = 0
           THEN UNCHANGED << player, cacheLocations, cacheState >>
           ELSE IF k = 0
           THEN LET after == depositCoin(player,
                                         fromMomento(cacheState[cacheId]))
                IN  /\ player' = after.player
                    /\ UNCHANGED cacheLocations
                    /\ cacheState' = MapSet(cacheState, after.cache.id,
                                            toMomento(after.cache))
           ELSE LET after == depositCoin(player, cacheLocations[k])
                IN  /\ player' = after.player
                    /\ cacheLocations' =
                         [cacheLocations EXCEPT ![k] = after.cache]
                    /\ cacheState' = MapSet(cacheState, after.cache.id,
                                            toMomento(after.cache))
    /\ UNCHANGED << movementHistory, localStorage, watching, phase >>

(* depositCoins that does not write the snapshot back. *)
depositCoinsWithoutPut(cacheId) ==
    /\ phase = "running"
    /\ LET k == FindCache(cacheLocations, cacheId)
       IN  IF k = 0
           THEN UNCHANGED << player, cacheLocations, cacheState >>
           ELSE IF Len(player.coins) = 0
           THEN UNCHANGED << player, cacheLocations, cacheState >>
           ELSE LET after == depositCoin(player, cacheLocations[k])
                IN  /\ player' = after.player
                    /\ cacheLocations' =
                         [cacheLocations EXCEPT ![k] = after.cache]
                    /\ UNCHANGED cacheState
    /\ UNCHANGED << movementHistory, localStorage, watching, phase >>

depositCoins(cacheId) ==
    /\ phase = "running"
    /\ LET k == FindCache(cacheLocations, cacheId)
       IN  IF k = 0
           THEN UNCHANGED << player, cacheLocations, cacheState >>
           ELSE IF Len(player.coins) = 0
           THEN UNCHANGED << player, cacheLocations, cacheState >>
           ELSE LET after == depositCoin(player, cacheLocations[k])
                IN  /\ player' = after.player
                    /\ cacheLocations' =
                         [cacheLocations EXCEPT ![k] = after.cache]
                    /\ cacheState' = MapSet(cacheState, after.cache.id,
                                            toMomento(after.cache))
    /\ UNCHANGED << movementHistory, localStorage, watching, phase >>

(* A popup button is clicked in a popup that is opened on the newest       *)
(* marker for the click and closed after it.                               *)
CollectButton(cacheId) ==
    /\ collectCoins(cacheId)
    /\ UNCHANGED popup

DepositButton(cacheId) ==
    /\ depositCoins(cacheId)
    /\ UNCHANGED popup

(* Click on the marker of a cache of the live view.  The marker on top is  *)
(* the newest, created by the last updateCacheMarkers for the object in    *)
(* cacheLocations with the content of that moment; popupopen puts the      *)
(* listeners on the buttons.  An open popup is closed.                     *)
OpenPopup(cacheId) ==
    /\ phase = "running"
    /\ FindCache(cacheLocations, cacheId) # 0
    /\ LET cache == cacheLocations[FindCache(cacheLocations, cacheId)]
       IN  popup' = << [cache |-> cache,
                        attached |-> TRUE,
                        content |-> getPopupContent(cache),
                        armed |-> TRUE] >>
    /\ UNCHANGED << player, cacheLocations, cacheState, movementHistory,
                    localStorage, watching, phase >>

ClosePopup ==
    /\ popup # NoPopup
    /\ popup' = NoPopup
    /\ UNCHANGED << player, cacheLocations, cacheState, movementHistory,
                    localStorage, watching, phase >>

(* The object the open popup's marker holds, after a call that left        *)
(* cacheLocations as locations.                                            *)
PopupCache(open, locations) ==
    IF open.attached
    THEN locations[FindCache(locations, open.cache.id)]
    ELSE open.cache

(* popup.setContent(getPopupContent()): the content is rendered from the   *)
(* marker's object and replaces the buttons that had the listeners.        *)
PopupAfterClick(open, locations) ==
    << [open EXCEPT !.cache = PopupCache(open, locations),
                    !.content = getPopupContent(PopupCache(open, locations)),
                    !.armed = FALSE] >>

(* Click listener of the popup's collect button. *)
PopupCollect ==
    /\ popup # NoPopup
    /\ popup[1].armed
    /\ collectCoins(popup[1].cache.id)
    /\ popup' = PopupAfterClick(popup[1], cacheLocations')

(* Click listener of the popup's deposit button. *)
PopupDeposit ==
    /\ popup # NoPopup
    /\ popup[1].armed
    /\ depositCoins(popup[1].cache.id)
    /\ popup' = PopupAfterClick(popup[1], cacheLocations')

(* The module body runs anew: every in-memory variable is rebuilt. *)
LoadPage ==
    /\ player' = FreshMemory.player
    /\ cacheLocations' = FreshMemory.cacheLocations
    /\ cacheState' = FreshMemory.cacheState
    /\ movementHistory' = FreshMemory.movementHistory
    /\ watching' = FALSE
    /\ popup' = NoPopup
    /\ phase' = "loading"

(* The page is loaded again: the module body runs anew, localStorage       *)
(* stays.  Bounded by the length of the trail the next startup builds.     *)
TrailHasRoom(storage) ==
    IF storage = Absent THEN TRUE
    ELSE IF storage[1].format # "state" THEN TRUE
    ELSE Len(storage[1].history) < MaxTrail

Reload ==
    /\ phase = "running"
    /\ TrailHasRoom(localStorage)
    /\ LoadPage
    /\ UNCHANGED localStorage

(* resetGameState that reloads the page without clearing localStorage. *)
resetGameStateKeepsStorage(confirmed) ==
    /\ phase = "running"
    /\ IF confirmed
       THEN /\ UNCHANGED localStorage
            /\ LoadPage
       ELSE UNCHANGED vars

(* Click on the reset button: resetGameState. *)
resetGameState(confirmed) ==
    /\ phase = "running"
    /\ IF confirmed
       THEN /\ localStorage' = Absent
            /\ LoadPage
       ELSE UNCHANGED vars

(* The state after the module body has run, before DOMContentLoaded;     *)
(* localStorage is empty or holds a text the program did not write.        *)
Init ==
    /\ player = FreshMemory.player
    /\ cacheLocations = FreshMemory.cacheLocations
    /\ cacheState = FreshMemory.cacheState
    /\ movementHistory = FreshMemory.movementHistory
    /\ watching = FALSE
    /\ popup = NoPopup
    /\ phase = "loading"
    /\ localStorage \in {Absent, << GarbageText >>, << PartialText >>}

Next ==
    \/ DOMContentLoaded
    \/ \E index \in 1..4 : ClickMove(index)
    \/ \E supported \in BOOLEAN : ClickGeolocation(supported)
    \/ \E coords \in GeoSamples : PositionUpdate(coords)
    \/ \E cacheId \in TargetIds : CollectButton(cacheId)
    \/ \E cacheId \in HomeIds : DepositButton(cacheId)
    \/ Reload
    \/ \E confirmed \in BOOLEAN : resetGameState(confirmed)

Spec == Init /\ [][Next]_vars

(* One page life after a startup without stored text, in which the popup   *)
(* buttons of all three targets are used: coins also go into a cache they  *)
(* did not come from.                                                      *)
InitTransfers ==
    /\ player = Startup(Absent).mem.player
    /\ cacheLocations = Startup(Absent).mem.cacheLocations
    /\ cacheState = Startup(Absent).mem.cacheState
    /\ movementHistory = Startup(Absent).mem.movementHistory
    /\ watching = FALSE
    /\ popup = NoPopup
    /\ phase = "running"
    /\ localStorage = Absent

NextTransfers ==
    \/ \E index \in 1..4 : ClickMove(index)
    \/ \E cacheId \in TargetIds : CollectButton(cacheId)
    \/ \E cacheId \in TargetIds : DepositButton(cacheId)

SpecTransfers == InitTransfers /\ [][NextTransfers]_vars

(* One page life after a startup without stored text, in which popups      *)
(* stay open: a popup is opened on a marker, the player may move, and a    *)
(* button of the open popup is clicked.                                    *)
PopupIds == {CacheA, CacheE}

NextPopups ==
    \/ \E index \in 1..4 : ClickMove(index)
    \/ \E cacheId \in PopupIds : OpenPopup(cacheId)
    \/ ClosePopup
    \/ PopupCollect
    \/ PopupDeposit

SpecPopups == InitTransfers /\ [][NextPopups]_vars

----------------------------------------------------------------------------
(* Vocabulary of the properties *)

LiveIds == {cacheLocations[k].id : k \in 1..Len(cacheLocations)}

StoredCoins(id) == fromMomento(cacheState[id]).coins

(* Coins in the inventory plus coins in all snapshots of the store. *)
TotalCoins ==
    Len(player.coins)
    + Cardinality(UNION {{<< id, k >> : k \in 1..Len(StoredCoins(id))} :
                            id \in DOMAIN cacheState})

Transfer ==
    \E cacheId \in TargetIds : collectCoins(cacheId) \/ depositCoins(cacheId)

ButtonMove == \E index \in 1..4 : ClickMove(index)

(* The stored text is the one saveGameState would write now. *)
SavedNow ==
    /\ phase = "running"
    /\ localStorage = saveGameState(player, cacheState, movementHistory)

MalformedStored ==
    IF localStorage = Absent THEN FALSE ELSE localStorage[1].format # "state"

GeneratedSnapshot(cacheId) ==
    generateCache(IdCell(cacheId), EmptyMap).store[cacheId]

----------------------------------------------------------------------------
(* C1: a collectCoins or depositCoins call, successful or not, leaves the  *)
(* number of coins in the inventory plus the coins of all snapshots in     *)
(* the store unchanged.                                                    *)
C1_Conservation == [][Transfer => TotalCoins' = TotalCoins]_vars

(* A coin is in the inventory and another was deposited into the cache     *)
(* that was generated empty.                                               *)
C1_Witness ==
    /\ player.coins # << >>
    /\ CacheE \in DOMAIN cacheState
    /\ StoredCoins(CacheE) # << >>

(* C2: while the page is running, the snapshot of a cache outside the      *)
(* live view is never changed, and a cache that enters the live view is    *)
(* materialized with exactly the coin sequence of that snapshot, so its    *)
(* contents survive leaving and re-entering range.                         *)
C2_ContentsSurvive ==
    [][(phase = "running" /\ phase' = "running") =>
         \A id \in DOMAIN cacheState \ LiveIds :
            /\ id \in DOMAIN cacheState'
            /\ cacheState'[id] = cacheState[id]
            /\ \A k \in 1..Len(cacheLocations') :
                  cacheLocations'[k].id = id =>
                     cacheLocations'[k].coins = StoredCoins(id)]_vars

(* The cache A is out of range while its snapshot differs from what the    *)
(* generator produces for its cell.                                        *)
C2_Witness ==
    /\ phase = "running"
    /\ CacheA \in DOMAIN cacheState
    /\ CacheA \notin LiveIds
    /\ cacheState[CacheA] # GeneratedSnapshot(CacheA)

(* C3: every cache of the live view has a snapshot in the store under its  *)
(* id, and the snapshot encodes the object's id, location and coins.       *)
C3_StoreInSync ==
    \A k \in 1..Len(cacheLocations) :
       /\ MapHas(cacheState, cacheLocations[k].id)
       /\ cacheState[cacheLocations[k].id] = toMomento(cacheLocations[k])
       /\ fromMomento(cacheState[cacheLocations[k].id]) = cacheLocations[k]

(* A is in view after a startup that restored a session; one of its coins  *)
(* has been collected and is in the inventory.                             *)
C3_Witness ==
    /\ CacheA \in LiveIds
    /\ CacheA \in player.visitedCaches
    /\ Len(StoredCoins(CacheA)) = 1
    /\ player.coins # << >>
    /\ movementHistory # << >>

(* C4: after a button move, a successful collect and a successful deposit  *)
(* the stored session text encodes the current position, inventory, store  *)
(* and movement history.                                                   *)
C4_SessionWritten ==
    [][(ButtonMove \/ (Transfer /\ player' # player)) =>
         localStorage' = saveGameState(player', cacheState', movementHistory')
      ]_vars

(* C5: restoring the text saveGameState writes in a state gives back that  *)
(* state's position, inventory, store and movement history.                *)
C5_RoundTripExact ==
    SavedNow =>
       LET restored == restoreGameState(localStorage, FreshMemory).mem
       IN  /\ restored.player.position = player.position
           /\ restored.player.coins = player.coins
           /\ restored.cacheState = cacheState
           /\ restored.movementHistory = movementHistory

(* C6: startup on the text saveGameState writes in a state gives the live  *)
(* view, the inventory and the position of that state.                     *)
C6_RestartScenario ==
    SavedNow =>
       LET started == Startup(localStorage)
       IN  /\ ~started.threw
           /\ started.mem.cacheLocations = cacheLocations
           /\ started.mem.player.coins = player.coins
           /\ started.mem.player.position = player.position

(* Saved with a coin in the inventory that was collected from A, which is  *)
(* in view with the one coin left.                                         *)
C6_Witness ==
    /\ SavedNow
    /\ player.coins # << >>
    /\ CacheA \in LiveIds
    /\ Len(StoredCoins(CacheA)) = 1

(* C7: a button move shifts the position by one grid step on one axis,     *)
(* recomputes the live view for the new position and appends the new       *)
(* position to the movement history.                                       *)
OneGridStep(from, to) ==
    \/ /\ to.lng = from.lng
       /\ to.lat - from.lat \in {GRID_SIZE, -GRID_SIZE}
    \/ /\ to.lat = from.lat
       /\ to.lng - from.lng \in {GRID_SIZE, -GRID_SIZE}

C7_MoveAppendsTrail ==
    [][ButtonMove =>
         /\ OneGridStep(player.position, player'.position)
         /\ cacheLocations' =
              updateVisibleCaches(player'.position, cacheState).cacheLocations
         /\ movementHistory' = Append(movementHistory, player'.position)
      ]_vars

(* C8: startup on a malformed stored text does not fail and ends in the    *)
(* state a startup without stored text ends in.                            *)
C8_MalformedAsAbsent ==
    [][(phase = "loading" /\ MalformedStored /\ phase' = "running") =>
         /\ ~Startup(localStorage).threw
         /\ player' = Startup(Absent).mem.player
         /\ cacheState' = Startup(Absent).mem.cacheState
         /\ cacheLocations' = Startup(Absent).mem.cacheLocations
         /\ movementHistory' = Startup(Absent).mem.movementHistory
      ]_vars

(* C9: collectCoins on a cache that is not in the live view or is empty,   *)
(* and depositCoins on a cache that is not in the live view or with an     *)
(* empty inventory, change neither the player (position, inventory,        *)
(* visited set) nor the live view nor the store.                           *)
CollectFails(cacheId) ==
    LET k == FindCache(cacheLocations, cacheId)
    IN  IF k = 0 THEN TRUE ELSE Len(cacheLocations[k].coins) = 0

DepositFails(cacheId) ==
    FindCache(cacheLocations, cacheId) = 0 \/ Len(player.coins) = 0

C9_SoftErrorsNoOp ==
    [][\A cacheId \in TargetIds :
          (\/ collectCoins(cacheId) /\ CollectFails(cacheId)
           \/ depositCoins(cacheId) /\ DepositFails(cacheId))
          => UNCHANGED << player, cacheLocations, cacheState >>]_vars

(* A has been visited and is out of range, the empty cache E is in view    *)
(* and the inventory is empty: each of the four failures can happen.       *)
C9_Witness ==
    /\ phase = "running"
    /\ CacheA \in player.visitedCaches
    /\ CacheA \notin LiveIds
    /\ CacheE \in LiveIds
    /\ StoredCoins(CacheE) = << >>
    /\ player.coins = << >>

(* C10: a collect on a cache of the live view holding S . c moves c, the   *)
(* cache's last coin, to the tail of the inventory, leaves S in the cache  *)
(* and in its snapshot, and marks the cache visited.                       *)
C10_SuccessfulCollect ==
    [][\A cacheId \in TargetIds :
          (collectCoins(cacheId) /\ ~CollectFails(cacheId)) =>
             LET k == FindCache(cacheLocations, cacheId)
                 S == Front(cacheLocations[k].coins)
                 c == Last(cacheLocations[k].coins)
             IN  /\ cacheLocations'[k].coins = S
                 /\ player'.coins = Append(player.coins, c)
                 /\ cacheId \in player'.visitedCaches
                 /\ fromMomento(cacheState'[cacheId]).coins = S]_vars

(* Both coins of A were collected, the second onto a non-empty inventory. *)
C10_Witness ==
    /\ CacheA \in player.visitedCaches
    /\ CacheA \in LiveIds
    /\ StoredCoins(CacheA) = << >>
    /\ Len(player.coins) = 2

(* C11: a deposit into a cache of the live view holding S, with the        *)
(* inventory V . c, leaves V in the inventory and S . c in the cache and   *)
(* in its snapshot.                                                        *)
C11_SuccessfulDeposit ==
    [][\A cacheId \in TargetIds :
          (depositCoins(cacheId) /\ ~DepositFails(cacheId)) =>
             LET k == FindCache(cacheLocations, cacheId)
                 S == cacheLocations[k].coins
                 V == Front(player.coins)
                 c == Last(player.coins)
             IN  /\ player'.coins = V
                 /\ cacheLocations'[k].coins = Append(S, c)
                 /\ fromMomento(cacheState'[cacheId]).coins = Append(S, c)
      ]_vars

(* Both coins of A were deposited into E: the first from an inventory of   *)
(* two, the second onto a non-empty cache.                                 *)
C11_Witness ==
    /\ CacheE \in LiveIds
    /\ Len(StoredCoins(CacheE)) = 2
    /\ player.coins = << >>

(* C12: a collectCoins call lengthens the inventory by 0 or 1 and shrinks  *)
(* the target cache, in the live view and in its snapshot, by the same     *)
(* amount; a depositCoins call grows the target cache by 0 or 1 and        *)
(* shortens the inventory by the same amount.                              *)
LiveCoinCount(locations, cacheId) ==
    LET k == FindCache(locations, cacheId)
    IN  IF k = 0 THEN 0 ELSE Len(locations[k].coins)

StoredCoinCount(store, cacheId) ==
    IF MapHas(store, cacheId) THEN Len(fromMomento(store[cacheId]).coins)
    ELSE 0

C12_AtMostOne ==
    [][\A cacheId \in TargetIds :
          LET gained == Len(player'.coins) - Len(player.coins)
              liveLost == LiveCoinCount(cacheLocations, cacheId)
                          - LiveCoinCount(cacheLocations', cacheId)
              storedLost == StoredCoinCount(cacheState, cacheId)
                            - StoredCoinCount(cacheState', cacheId)
          IN  /\ collectCoins(cacheId) =>
                   /\ gained \in {0, 1}
                   /\ liveLost = gained
                   /\ storedLost = gained
              /\ depositCoins(cacheId) =>
                   /\ -gained \in {0, 1}
                   /\ -liveLost = -gained
                   /\ -storedLost = -gained
      ]_vars

(* Two coins were collected from A and one of them deposited into E. *)
C12_Witness ==
    /\ CacheA \in LiveIds
    /\ StoredCoins(CacheA) = << >>
    /\ Len(player.coins) = 1
    /\ CacheE \in LiveIds
    /\ Len(StoredCoins(CacheE)) = 1

(* C13: after a button move, a geolocation sample and a startup that       *)
(* returns, the live view holds exactly one cache for every cell within    *)
(* RANGE of the player's cell on both axes whose id is in the store or     *)
(* whose existence test is true, and no other cache.                       *)
GeoUpdate == \E coords \in GeoSamples : PositionUpdate(coords)

StartupReturns ==
    /\ phase = "loading"
    /\ phase' = "running"
    /\ ~Startup(localStorage).threw

Square(playerCell) ==
    {[i |-> playerCell.i + di, j |-> playerCell.j + dj] :
        di \in -RANGE..RANGE, dj \in -RANGE..RANGE}

(* The ids of the cells of the square whose existence test is true, for    *)
(* every cell the player can stand in.                                     *)
ExistingInSquare ==
    [playerCell \in BoxCells |->
        {CacheId(cell) : cell \in {c \in Square(playerCell) : Exists(c)}}]

VisibleComplete ==
    LET playerCell == latLngToCell(player.position)
        expected == ExistingInSquare[playerCell]
                    \cup {id \in DOMAIN cacheState :
                             InWindow(IdCell(id), playerCell)}
    IN  /\ LiveIds = expected
        /\ Len(cacheLocations) = Cardinality(expected)

C13_VisibilityComplete ==
    [][(ButtonMove \/ GeoUpdate \/ StartupReturns) => VisibleComplete']_vars

(* The player stands off the grid lines in the cell one north and one west *)
(* of the start cell: E is on the east edge of the square, and A has a     *)
(* snapshot in the store but lies outside the square.                      *)
C13_Witness ==
    /\ phase = "running"
    /\ player.position.lat % GRID_SIZE # 0
    /\ latLngToCell(player.position) = CellAt(1, -1)
    /\ CacheE \in LiveIds
    /\ MapHas(cacheState, CacheA)
    /\ CacheA \notin LiveIds

(* C14: a geolocation sample delivered to the watchPosition callback sets  *)
(* the position to the sample, recomputes the live view, appends the       *)
(* position to the movement history and writes the session text, as a      *)
(* button move is said to do.                                              *)
C14_GeolocationPipeline ==
    [][\A coords \in GeoSamples :
          PositionUpdate(coords) =>
             /\ player'.position = coords
             /\ cacheLocations' =
                  updateVisibleCaches(coords, cacheState).cacheLocations
             /\ movementHistory' = Append(movementHistory, coords)
             /\ localStorage' =
                  saveGameState(player', cacheState', movementHistory')
      ]_vars

(* C15: a confirmed reset leaves no stored text and a freshly loaded page, *)
(* whose startup then runs from the start position with empty inventory,   *)
(* empty store and empty movement history; a declined reset changes        *)
(* neither the stored text nor anything in memory.                         *)
C15_ResetClears ==
    [][/\ resetGameState(TRUE) =>
             /\ localStorage' = Absent
             /\ phase' = "loading"
             /\ player' = NewPlayer(InitialPosition)
             /\ cacheState' = EmptyMap
             /\ movementHistory' = << >>
       /\ resetGameState(FALSE) => UNCHANGED vars
       /\ (phase = "loading" /\ localStorage = Absent /\ phase' = "running") =>
             LET view == updateVisibleCaches(InitialPosition, EmptyMap)
             IN  /\ player' = NewPlayer(InitialPosition)
                 /\ movementHistory' = << >>
                 /\ cacheState' = view.cacheState
                 /\ cacheLocations' = view.cacheLocations
      ]_vars

(* The reset button can be clicked where every component has something to  *)
(* lose: a session is stored, the player has moved and holds a coin, and   *)
(* the movement history is not empty.                                      *)
C15_Witness ==
    /\ phase = "running"
    /\ localStorage # Absent
    /\ player.position # InitialPosition
    /\ player.coins # << >>
    /\ movementHistory # << >>
    /\ watching

(* C16: without a stored text the freshly loaded page has the player at    *)
(* the start coordinate with empty inventory, empty store and empty        *)
(* movement history; restoreGameState raises nothing and changes nothing,  *)
(* and the startup leaves the player and the movement history as they are. *)
C16_AbsentIsNewGame ==
    [][(phase = "loading" /\ localStorage = Absent /\ phase' = "running") =>
          LET mem == [player |-> player,
                      cacheLocations |-> cacheLocations,
                      cacheState |-> cacheState,
                      movementHistory |-> movementHistory]
              restored == restoreGameState(localStorage, mem)
          IN  /\ player.position = [lat |-> INITIAL_LAT, lng |-> INITIAL_LNG]
              /\ player.coins = << >>
              /\ cacheState = EmptyMap
              /\ movementHistory = << >>
              /\ ~restored.threw
              /\ restored.mem = mem
              /\ ~Startup(localStorage).threw
              /\ player' = player
              /\ movementHistory' = movementHistory
      ]_vars

(* The page runs after a startup without stored text: nothing has been     *)
(* written since, and the first refresh has filled the live view.          *)
C16_Witness ==
    /\ phase = "running"
    /\ localStorage = Absent
    /\ player.position = InitialPosition
    /\ player.coins = << >>
    /\ movementHistory = << >>
    /\ cacheLocations # << >>
    /\ ~watching

(* C17: for every Geocache of the live view, the Geocache restored from    *)
(* its memento has the same id, location and coin sequence and the same    *)
(* memento; and the Geocache restoreCache builds from a stored snapshot    *)
(* has that snapshot as its memento.                                       *)
C17_MementoRoundTrip ==
    /\ \A k \in 1..Len(cacheLocations) :
          LET c == cacheLocations[k]
              restored == fromMomento(toMomento(c))
          IN  /\ restored.id = c.id
              /\ restored.location = c.location
              /\ restored.coins = c.coins
              /\ toMomento(restored) = toMomento(c)
    /\ \A id \in DOMAIN cacheState :
          toMomento(restoreCache(id, cacheState)[1]) = cacheState[id]

(* E, generated empty, holds the two coins of A in the order opposite to   *)
(* their serials.                                                          *)
C17_Witness ==
    /\ CacheE \in LiveIds
    /\ Len(StoredCoins(CacheE)) = 2
    /\ StoredCoins(CacheE)[1][3] = 1
    /\ StoredCoins(CacheE)[2][3] = 0

(* C18: in every state of the running page, a button move north followed   *)
(* by a button move south ends with a live view that has the ids and coin  *)
(* sequences of the live view before the two moves.                        *)
ViewContents(locations) ==
    {<< locations[k].id, locations[k].coins >> : k \in 1..Len(locations)}

NorthThenSouth ==
    LET north == move(player.position, "north")
        first == updateVisibleCaches(north, cacheState)
        south == move(north, "south")
    IN  updateVisibleCaches(south, first.cacheState)

C18_MoveRoundTrip ==
    phase = "running" =>
       ViewContents(NorthThenSouth.cacheLocations)
          = ViewContents(cacheLocations)

(* C19: in every state of the running page, updateVisibleCaches run twice  *)
(* at the player's position gives the second time the live view of the     *)
(* first run and leaves the store of the first run unchanged; and where    *)
(* the live view was built by a refresh, a run on the current store gives  *)
(* the current live view and store again.                                  *)
C19_RefreshReproducible ==
    phase = "running" =>
       LET first == updateVisibleCaches(player.position, cacheState)
           second == updateVisibleCaches(player.position, first.cacheState)
       IN  /\ second.cacheLocations = first.cacheLocations
           /\ second.cacheState = first.cacheState
           /\ cacheLocations # << >> =>
                 /\ first.cacheLocations = cacheLocations
                 /\ first.cacheState = cacheState

(* The page runs with an empty store away from the start cell: the first   *)
(* run generates every cache of the square and the second restores them.   *)
C19_Witness ==
    /\ phase = "running"
    /\ cacheState = EmptyMap
    /\ latLngToCell(player.position) = CellAt(1, 0)

(* C20: generateCache, called for any cell of the square around the        *)
(* player with the current store or with an empty store, returns for a     *)
(* cell whose existence test is true a cache with the cell's id and coins  *)
(* i:j#0 .. i:j#(count-1) in this order, with 0 <= count <= 4 and the      *)
(* same cache whatever the store holds, and stores exactly that cache's    *)
(* snapshot under the id, leaving every other entry alone; for any other   *)
(* cell it returns null and the store it was given.                        *)
C20_Generator ==
    \A cell \in Square(latLngToCell(player.position)) :
       LET id == CacheId(cell)
           result == generateCache(cell, cacheState)
       IN  IF deterministicRandom(cell.i * RANGE + cell.j) < CACHE_PROBABILITY
           THEN LET cache == result.cache[1]
                    count == Len(cache.coins)
                IN  /\ Len(result.cache) = 1
                    /\ cache.id = << "cache", cell.i, cell.j >>
                    /\ count \in 0..4
                    /\ \A n \in 1..count :
                          cache.coins[n] = << cell.i, cell.j, n - 1 >>
                    /\ generateCache(cell, EmptyMap).cache = result.cache
                    /\ DOMAIN generateCache(cell, EmptyMap).store = {id}
                    /\ generateCache(cell, EmptyMap).store[id]
                          = result.store[id]
                    /\ DOMAIN result.store = DOMAIN cacheState \cup {id}
                    /\ fromMomento(result.store[id]) = cache
                    /\ \A other \in DOMAIN cacheState \ {id} :
                          result.store[other] = cacheState[other]
           ELSE /\ result.cache = << >>
                /\ result.store = cacheState

(* A and a cache generated with four coins are in view, and the store      *)
(* holds for A a snapshot without coins, which the generator would         *)
(* overwrite with the generated two.                                       *)
C20_Witness ==
    /\ phase = "running"
    /\ CacheA \in LiveIds
    /\ StoredCoins(CacheA) = << >>
    /\ Len(GeneratedSnapshot(CacheA)[3]) = 2
    /\ \E k \in 1..Len(cacheLocations) :
          /\ Len(cacheLocations[k].coins) = 4
          /\ toMomento(cacheLocations[k])
               = GeneratedSnapshot(cacheLocations[k].id)

(* C21: while the page runs with geolocation tracking on, some operation   *)
(* of the page ends the tracking and leaves the page running; once the     *)
(* tracking is off, no sample is delivered.                                *)
C21_GeolocationTeardown ==
    (phase = "running" /\ watching) =>
       ENABLED (Next /\ ~watching' /\ phase' = "running")

(* C22: while the page runs, every snapshot of the store stays in the      *)
(* store with its id and location; a button move or a geolocation sample   *)
(* leaves every snapshot as it is and materializes a stored cache of the   *)
(* square with the coins of its snapshot, not with generated ones; and a   *)
(* snapshot's coin sequence changes only in a successful collect or        *)
(* deposit on that same id.                                                *)
SuccessfulTransfer(cacheId) ==
    \/ collectCoins(cacheId) /\ ~CollectFails(cacheId)
    \/ depositCoins(cacheId) /\ ~DepositFails(cacheId)

C22_MonotoneStore ==
    [][(phase = "running" /\ phase' = "running") =>
          /\ \A id \in DOMAIN cacheState :
                /\ id \in DOMAIN cacheState'
                /\ cacheState'[id] # cacheState[id] =>
                      /\ SuccessfulTransfer(id)
                      /\ fromMomento(cacheState'[id]).id = id
                      /\ fromMomento(cacheState'[id]).location
                           = fromMomento(cacheState[id]).location
          /\ (ButtonMove \/ GeoUpdate) =>
                \A k \in 1..Len(cacheLocations') :
                   MapHas(cacheState, cacheLocations'[k].id) =>
                      cacheLocations'[k].coins
                         = StoredCoins(cacheLocations'[k].id)
      ]_vars

(* A is in view with a snapshot that a collect changed, and the stored     *)
(* session holds that changed snapshot: the player has moved away from A   *)
(* and come back since.                                                    *)
C22_Witness ==
    /\ phase = "running"
    /\ CacheA \in LiveIds
    /\ cacheState[CacheA] # GeneratedSnapshot(CacheA)
    /\ localStorage # Absent
    /\ localStorage[1].format = "state"
    /\ CacheA \in DOMAIN localStorage[1].caches
    /\ localStorage[1].caches[CacheA] = cacheState[CacheA]

(* C23: after a click on the collect or the deposit button of an open      *)
(* popup, the coin list the popup shows is the coin sequence of the        *)
(* snapshot the store holds for the popup's cache, also when the player    *)
(* has moved since the popup was opened.                                   *)
C23_PopupShowsSnapshot ==
    [][(PopupCollect \/ PopupDeposit) =>
          LET content == popup'[1].content
              stored == fromMomento(cacheState'[popup'[1].cache.id]).coins
          IN  /\ content.list = stored
              /\ content.placeholder = "(empty)" <=> stored = << >>
      ]_vars

(* C24: in every state no coin id occurs twice in the inventory and the    *)
(* coin sequences of the snapshots of the store taken together, also       *)
(* after a restart that restored a session the program wrote.              *)
HeldCoins ==
    {player.coins[k] : k \in 1..Len(player.coins)}
    \cup UNION {{StoredCoins(id)[k] : k \in 1..Len(StoredCoins(id))} :
                   id \in DOMAIN cacheState}

C24_CoinUniqueness == Cardinality(HeldCoins) = TotalCoins

(* A session with both coins of A in the inventory was saved and restored: *)
(* the coins were not collected in this page life, and A's snapshot is     *)
(* empty.                                                                  *)
C24_Witness ==
    /\ phase = "running"
    /\ movementHistory # << >>
    /\ Len(player.coins) = 2
    /\ player.visitedCaches = {}
    /\ MapHas(cacheState, CacheA)
    /\ StoredCoins(CacheA) = << >>

(* C25: on a cache of the live view that holds coins, collectCoins         *)
(* followed by depositCoins on the same cache gives back the cache's coin  *)
(* sequence, in the live view and in the snapshot, and the inventory; with *)
(* a non-empty inventory, depositCoins followed by collectCoins does.      *)
(* The two calls are composed as functions of the memory [player,          *)
(* cacheLocations, cacheState], which every step of the two handlers is    *)
(* checked to follow.                                                      *)
Memory ==
    [player |-> player,
     cacheLocations |-> cacheLocations,
     cacheState |-> cacheState]

AfterCollect(mem, cacheId) ==
    LET k == FindCache(mem.cacheLocations, cacheId)
    IN  IF k = 0 THEN mem
        ELSE IF Len(mem.cacheLocations[k].coins) = 0 THEN mem
        ELSE LET coin == Last(mem.cacheLocations[k].coins)
                 cache == [mem.cacheLocations[k] EXCEPT !.coins = Front(@)]
             IN  [player |-> collectCoin(mem.player, coin, cache.id),
                  cacheLocations |-> [mem.cacheLocations EXCEPT ![k] = cache],
                  cacheState |-> MapSet(mem.cacheState, cache.id,
                                        toMomento(cache))]

AfterDeposit(mem, cacheId) ==
    LET k == FindCache(mem.cacheLocations, cacheId)
    IN  IF k = 0 THEN mem
        ELSE IF Len(mem.player.coins) = 0 THEN mem
        ELSE LET after == depositCoin(mem.player, mem.cacheLocations[k])
             IN  [player |-> after.player,
                  cacheLocations |->
                      [mem.cacheLocations EXCEPT ![k] = after.cache],
                  cacheState |-> MapSet(mem.cacheState, after.cache.id,
                                        toMomento(after.cache))]

SameCoins(mem, other) ==
    /\ mem.player.coins = other.player.coins
    /\ mem.cacheLocations = other.cacheLocations
    /\ mem.cacheState = other.cacheState

C25_CollectDepositInverse ==
    [][\A cacheId \in TargetIds :
          /\ collectCoins(cacheId) => Memory' = AfterCollect(Memory, cacheId)
          /\ depositCoins(cacheId) => Memory' = AfterDeposit(Memory, cacheId)
          /\ (phase = "running" /\ ~CollectFails(cacheId)) =>
                SameCoins(AfterDeposit(AfterCollect(Memory, cacheId), cacheId),
                          Memory)
          /\ (phase = "running" /\ ~DepositFails(cacheId)) =>
                SameCoins(AfterCollect(AfterDeposit(Memory, cacheId), cacheId),
                          Memory)
      ]_vars

(* A holds one coin and the inventory the other, with the empty E in view: *)
(* both orders of the two calls can run on A, and deposit then collect on  *)
(* E.                                                                      *)
C25_Witness ==
    /\ phase = "running"
    /\ CacheA \in LiveIds
    /\ CacheE \in LiveIds
    /\ Len(StoredCoins(CacheA)) = 1
    /\ StoredCoins(CacheE) = << >>
    /\ Len(player.coins) = 1

(* C26: a collectCoins or depositCoins call that names a cache with a      *)
(* snapshot in the store and a cell outside the window around the player's *)
(* cell finds no cache in the live view and leaves that snapshot and the   *)
(* inventory as they were.                                                 *)
OutOfWindow(cacheId) ==
    /\ MapHas(cacheState, cacheId)
    /\ ~InWindow(IdCell(cacheId), latLngToCell(player.position))

C26_OnlyVisibleCaches ==
    [][\A cacheId \in TargetIds :
          (/\ OutOfWindow(cacheId)
           /\ collectCoins(cacheId) \/ depositCoins(cacheId))
          => /\ FindCache(cacheLocations, cacheId) = 0
             /\ cacheState'[cacheId] = cacheState[cacheId]
             /\ player'.coins = player.coins
      ]_vars

(* A is out of the window with one coin in its snapshot and the other coin *)
(* in the inventory: only the lookup stops a collect or a deposit on A.    *)
C26_Witness ==
    /\ phase = "running"
    /\ OutOfWindow(CacheA)
    /\ Len(StoredCoins(CacheA)) = 1
    /\ Len(player.coins) = 1
    /\ CacheA \in player.visitedCaches

TypeOK ==
    /\ phase \in {"loading", "running"}
    /\ watching \in BOOLEAN
    /\ Len(localStorage) <= 1
    /\ Len(popup) <= 1

====
